---------------------------- MODULE Spec2Model ----------------------------
(***************************************************************************)
(* State-machine model of the PCI-9846H batch acquisition program          *)
(* (src/cadgetdata.c): the trigger cycle of main, the half-buffer drain    *)
(* loop, extract_selected_channels, the live temp-file publication and     *)
(* save_batch_to_file, together with the driver that fills the two DMA     *)
(* half-buffers; and of its two earlier variants in                        *)
(* src/CodeTriggerExtBaru (ori.c, fft_zero.c) with the spectral stage      *)
(* process_fft_and_save_onefile.                                           *)
(***************************************************************************)
EXTENDS Integers, Sequences, FiniteSets, TLC

(***************************************************************************)
(* Program constants.  BUFFER_SAMPLES (8192 in the source) and             *)
(* MAX_EVENT_BATCH (1000 in the source) are scaled down; every index       *)
(* computation keeps the source's form.                                    *)
(***************************************************************************)
TOTAL_HW_CHANNELS == 4
SELECTED_IDX == <<1, 3>>
SELECTED_COUNT == Len(SELECTED_IDX)
BUFFER_SAMPLES == 2
MAX_EVENT_BATCH == 2
SIZEOF_U16 == 2

(***************************************************************************)
(* Bounds of the model.                                                    *)
(***************************************************************************)
MaxCycles == 3      \* trigger cycles main may start (event_count)
MaxChunks == 2      \* half-buffers the driver fills in one acquisition
MaxTime == 1        \* seconds the wall clock can advance to
MaxScans == 2       \* scans per half-buffer tried on the extraction alone
MaxSample == 2      \* largest sample value tried on the spectral stage alone

NULL == 0
Ptrs == 1..MaxCycles
HwChunkSamps == BUFFER_SAMPLES * TOTAL_HW_CHANNELS
sel_chunk_samps == BUFFER_SAMPLES * SELECTED_COUNT
\* The chunk size counted in samples where bytes are meant.
sel_chunk_bytes_unscaled == sel_chunk_samps

sel_chunk_bytes == sel_chunk_samps * SIZEOF_U16

\* Slots of memory reachable through g_data_buffer[i]: indices at or above
\* MAX_EVENT_BATCH lie past the end of the static array.
SlotLimit == IF MaxCycles > MAX_EVENT_BATCH THEN MaxCycles ELSE MAX_EVENT_BATCH

VARIABLES
    pc,                 \* position of main
    exit_code,          \* -1 while running, else the process exit status
    card,               \* TRUE while the DAQ card is registered
    event_count,        \* main: int event_count
    exit_now,           \* main: int exit_now
    g_data_buffer,      \* static AcquisitionData g_data_buffer[]
    g_buffered_count,   \* static int g_buffered_count
    heap,               \* malloc'ed event buffers, by pointer
    current_acq_buffer, \* main: void* current_acq_buffer
    current_acq_size,   \* main: size_t current_acq_size (bytes)
    sel_work,           \* main: U16* sel_work
    g_fStop,            \* main: int g_fStop
    halfReady,          \* main: BOOLEAN halfReady
    current_buffer_idx, \* main: int current_buffer_idx
    f_out_live,         \* main: FILE* f_out_live ("none", "null", "open", "closed")
    fs_tmp,             \* live\live_acquisition_ui.tmp on disk
    fs_final,           \* live\live_acquisition_ui.bin on disk
    log_fs,             \* files in the log folder
    now,                \* wall clock, seconds
    ai_buf,             \* static U16 ai_buf[]
    ai_buf2,            \* static U16 ai_buf2[]
    drv,                \* driver side of the double-buffered acquisition
    hist,               \* history of the current run (observations only)
    arg_N,              \* extraction checked alone: scans in the argument
    arg_src,            \* extraction checked alone: the source as passed
    fft,                \* spectral stage: ch0, ch1, mag0, mag1, live_fft.bin
    variant,            \* which program runs: "cadgetdata", "ori", "fft_zero"
    env                 \* the run's environment: whether calls can fail, and
                        \* how many trigger cycles the run is followed for

vars == <<pc, exit_code, card, event_count, exit_now, g_data_buffer,
          g_buffered_count, heap, current_acq_buffer, current_acq_size,
          sel_work, g_fStop, halfReady, current_buffer_idx, f_out_live,
          fs_tmp, fs_final, log_fs, now, ai_buf, ai_buf2, drv, hist,
          arg_N, arg_src, fft, variant, env>>

(***************************************************************************)
(* Data helpers.                                                           *)
(***************************************************************************)
NoFile == [exists |-> FALSE, data |-> <<>>]
EmptyFile == [exists |-> TRUE, data |-> <<>>]
FreeBlock == [alloc |-> FALSE, data |-> <<>>]
EmptySlot == [data |-> NULL, size |-> 0]
NoWork == [alloc |-> FALSE, data |-> <<>>]
ZeroBuf == [j \in 0..(HwChunkSamps - 1) |-> 0]

\* Samples the ADC delivers in the n-th half-buffer of acquisition g (numbered
\* from 0): scan i of that half, channel c, holds
\* 100*g + 10*(c+1) + (n*BUFFER_SAMPLES + i), a U16 value, so that every
\* sample of a run can be told from every other.
Signal(g, n) ==
    [j \in 0..(HwChunkSamps - 1) |->
        (100 * g + 10 * ((j % TOTAL_HW_CHANNELS) + 1)
           + n * BUFFER_SAMPLES + (j \div TOTAL_HW_CHANNELS)) % 65536]

\* First n elements of a sequence (fwrite of n elements from a buffer).
Take(s, n) == SubSeq(s, 1, IF n < Len(s) THEN n ELSE Len(s))

\* snprintf "%d" of a non-negative int, as its decimal digits.
RECURSIVE FormatD(_)
FormatD(n) == IF n < 10 THEN <<n>> ELSE Append(FormatD(n \div 10), n % 10)

\* snprintf "%04d": zero-padded to at least four digits.
RECURSIVE PadLeft(_, _)
PadLeft(d, w) == IF Len(d) >= w THEN d ELSE PadLeft(<<0>> \o d, w)
Format04D(n) == PadLeft(FormatD(n), 4)

(***************************************************************************)
(* extract_selected_channels: for each scan i, for each k, the sample of   *)
(* hardware channel SELECTED_IDX[k] is written to dst[out++].              *)
(***************************************************************************)
ExtractScanSkewed(src, i) ==
    [k \in 1..SELECTED_COUNT |-> src[i * TOTAL_HW_CHANNELS + (SELECTED_IDX[k] - 1)]]

ExtractScan(src, i) ==
    [k \in 1..SELECTED_COUNT |-> src[i * TOTAL_HW_CHANNELS + SELECTED_IDX[k]]]

RECURSIVE ExtractLoop(_, _, _)
ExtractLoop(src, i, N) ==
    IF i >= N THEN <<>> ELSE ExtractScan(src, i) \o ExtractLoop(src, i + 1, N)

ExtractChannels(src, N) == ExtractLoop(src, 0, N)

extract_selected_channels(src) == ExtractChannels(src, BUFFER_SAMPLES)

(***************************************************************************)
(* The spectral stage of src/CodeTriggerExtBaru/fft_zero.c.  A float is    *)
(* kept as a whole number of 1/FloatUnit, so that the mean and the         *)
(* transform round as finite-precision arithmetic does.                    *)
(***************************************************************************)
FFT_SIZE == BUFFER_SAMPLES
CHANNEL_COUNT == 2
FloatUnit == 16

\* (float)u for a U16 sample u.
ToFloat(u) == u * FloatUnit

RECURSIVE SumTo(_, _)
SumTo(ch, n) == IF n = 0 THEN 0 ELSE SumTo(ch, n - 1) + ch[n]

\* Lines 105-111: the mean over the FFT_SIZE samples of one channel.
Mean(ch) == SumTo(ch, FFT_SIZE) \div FFT_SIZE

\* The stage without its centering step.
ZeroCentreSkipped(ch) == ch

\* Lines 112-115: ch[i] -= mean, in place.
ZeroCentre(ch) == [i \in 1..FFT_SIZE |-> ch[i] - Mean(ch)]

\* The transform's twiddle factors exp(-2*pi*i*m/n), in 1/FloatUnit.
Twiddle(n, m) ==
    LET one == FloatUnit
        half == FloatUnit \div 2
        s60 == (FloatUnit * 866 + 500) \div 1000
    IN CASE n = 1 -> [r |-> one, i |-> 0]
         [] n = 2 -> <<[r |-> one, i |-> 0], [r |-> -one, i |-> 0]>>[m + 1]
         [] n = 3 -> <<[r |-> one, i |-> 0], [r |-> -half, i |-> -s60],
                       [r |-> -half, i |-> s60]>>[m + 1]
         [] n = 4 -> <<[r |-> one, i |-> 0], [r |-> 0, i |-> -one],
                       [r |-> -one, i |-> 0], [r |-> 0, i |-> one]>>[m + 1]

RECURSIVE BinSum(_, _, _, _)
BinSum(in, k, n, part) ==
    IF n = 0 THEN 0
    ELSE BinSum(in, k, n - 1, part)
           + in[n] * Twiddle(FFT_SIZE, (k * (n - 1)) % FFT_SIZE)[part]

\* kiss_fft(cfg, in, out) on a real input: bin k of the transform.
kiss_fft(in) ==
    [k \in 1..FFT_SIZE |->
        [r |-> BinSum(in, k - 1, FFT_SIZE, "r") \div FloatUnit,
         i |-> BinSum(in, k - 1, FFT_SIZE, "i") \div FloatUnit]]

Abs(x) == IF x < 0 THEN -x ELSE x

\* sqrtf(re*re + im*im), rounded down to the float grid.
Magnitude(c) ==
    CHOOSE m \in 0..(Abs(c.r) + Abs(c.i)) :
        m * m <= c.r * c.r + c.i * c.i /\ c.r * c.r + c.i * c.i < (m + 1) * (m + 1)

\* Lines 125-142: the magnitude spectrum of one (centred) channel.
MagnitudeSpectrum(ch) == [k \in 1..FFT_SIZE |-> Magnitude(kiss_fft(ch)[k])]

\* Lines 149-152: mag0[0], mag1[0], mag0[1], mag1[1], ...
RECURSIVE Interleave(_, _, _)
Interleave(a, b, n) ==
    IF n = 0 THEN <<>> ELSE Interleave(a, b, n - 1) \o <<a[n], b[n]>>

NoSpectrum == [ch0 |-> <<>>, ch1 |-> <<>>, mag0 |-> <<>>, mag1 |-> <<>>,
               file |-> NoFile]

\* process_fft_and_save_onefile(ch0, ch1, len, folder): the arrays are
\* centred in place, transformed, and the magnitudes written to
\* live_fft.bin when that file can be opened.
process_fft_and_save_onefile(ch0, ch1, open_ok) ==
    LET c0 == ZeroCentre(ch0)
        c1 == ZeroCentre(ch1)
        m0 == MagnitudeSpectrum(c0)
        m1 == MagnitudeSpectrum(c1)
    IN [ch0 |-> c0, ch1 |-> c1, mag0 |-> m0, mag1 |-> m1,
        file |-> IF open_ok
                 THEN [exists |-> TRUE, data |-> Interleave(m0, m1, FFT_SIZE)]
                 ELSE fft.file]

(***************************************************************************)
(* Initial state: statics are zero-initialised, main has not started its   *)
(* first trigger cycle, the card is registered and configured.             *)
(***************************************************************************)
IdleDriver == [state |-> "idle", signal |-> 0, fill |-> 0, rd |-> 0,
               full |-> [h \in 0..1 |-> FALSE], nfilled |-> 0]

(***************************************************************************)
(* The environment of a run.  The calls whose result the program tests     *)
(* (WD-DASK calls, fopen, malloc, realloc, MoveFileExA) either can fail or *)
(* all succeed, as the run's environment has it.                           *)
(***************************************************************************)
FaultyEnv == [faults |-> TRUE, cycles |-> MaxCycles]

\* Results of a call that reports success.
Outcomes == IF env.faults THEN BOOLEAN ELSE {TRUE}

\* Results of a call that reports an error.
Errors == IF env.faults THEN BOOLEAN ELSE {FALSE}

InitHist == [reported |-> <<>>,       \* half-buffers reported ready, this event
             acked |-> 0,             \* WD_AI_AsyncDblBufferHandled calls, this event
             alloc_failed |-> FALSE,  \* realloc failed in this event
             esc_in_drain |-> FALSE,  \* ESC was seen at a drain-loop poll point
             esc_data |-> FALSE,      \* ... with data collected for the event
             esc_added |-> FALSE,     \* ... and that event was stored in the batch
             esc_flush |-> FALSE,     \* ... and save_batch_to_file ran on that batch
             spectral |-> 0,          \* spectral stage runs, this event
             cleared |-> 0,           \* WD_AI_AsyncClear calls of the loop body, this event
             last_save |-> "none",    \* outcome of the save_batch_to_file call of
                                      \* the last step: "none", "opened", "open_failed"
             carried |-> FALSE,       \* the last flush attempt could not open its file
             final_save |-> FALSE,    \* save_batch_to_file was called at shutdown
             added |-> <<>>,          \* payloads of the events stored in the batch,
                                      \* in the order they were stored
             flushed |-> <<>>,        \* paths of the log files opened, in flush order
             open_failed |-> FALSE,   \* some flush could not open its log file
             esc_in_wait |-> FALSE]   \* ESC was seen in the trigger wait loop

InitCommon ==
    /\ exit_code = -1
    /\ card = FALSE
    /\ event_count = 0
    /\ exit_now = 0
    /\ g_data_buffer = [i \in 0..(SlotLimit - 1) |-> EmptySlot]
    /\ g_buffered_count = 0
    /\ heap = [p \in Ptrs |-> FreeBlock]
    /\ current_acq_buffer = NULL
    /\ current_acq_size = 0
    /\ sel_work = NoWork
    /\ g_fStop = 0
    /\ halfReady = FALSE
    /\ current_buffer_idx = 0
    /\ f_out_live = "none"
    /\ fs_tmp = NoFile
    /\ fs_final = NoFile
    /\ log_fs = {}
    /\ now = 0
    /\ drv = IdleDriver
    /\ hist = InitHist
    /\ fft = NoSpectrum

Init ==
    /\ InitCommon
    /\ pc = "startup"
    /\ ai_buf = ZeroBuf
    /\ ai_buf2 = ZeroBuf
    /\ arg_N = BUFFER_SAMPLES
    /\ arg_src = ZeroBuf
    /\ variant = "cadgetdata"
    /\ env = FaultyEnv


(***************************************************************************)
(* The driver (WD-DASK) side: after the trigger it fills the registered    *)
(* half-buffers alternately, starting with the first one registered        *)
(* (ai_buf), and does not refill a half before it was acknowledged.        *)
(***************************************************************************)
DriverTrigger ==
    /\ drv.state = "armed"
    /\ drv' = [drv EXCEPT !.state = "running"]
    /\ UNCHANGED <<pc, exit_code, card, event_count, exit_now, g_data_buffer,
                   g_buffered_count, heap, current_acq_buffer, current_acq_size,
                   sel_work, g_fStop, halfReady, current_buffer_idx, f_out_live,
                   fs_tmp, fs_final, log_fs, now, ai_buf, ai_buf2, hist,
                   arg_N, arg_src, fft, variant, env>>

DriverFill ==
    /\ drv.state = "running"
    /\ drv.nfilled < MaxChunks
    /\ ~drv.full[drv.fill]
    /\ ai_buf' = IF drv.fill = 0 THEN Signal(drv.signal, drv.nfilled) ELSE ai_buf
    /\ ai_buf2' = IF drv.fill = 1 THEN Signal(drv.signal, drv.nfilled) ELSE ai_buf2
    /\ drv' = [drv EXCEPT !.full[drv.fill] = TRUE, !.fill = 1 - drv.fill,
                          !.nfilled = drv.nfilled + 1]
    /\ UNCHANGED <<pc, exit_code, card, event_count, exit_now, g_data_buffer,
                   g_buffered_count, heap, current_acq_buffer, current_acq_size,
                   sel_work, g_fStop, halfReady, current_buffer_idx, f_out_live,
                   fs_tmp, fs_final, log_fs, now, hist, arg_N, arg_src, fft, variant, env>>

DriverStop ==
    /\ drv.state = "running"
    /\ drv' = [drv EXCEPT !.state = "stopped"]
    /\ UNCHANGED <<pc, exit_code, card, event_count, exit_now, g_data_buffer,
                   g_buffered_count, heap, current_acq_buffer, current_acq_size,
                   sel_work, g_fStop, halfReady, current_buffer_idx, f_out_live,
                   fs_tmp, fs_final, log_fs, now, ai_buf, ai_buf2, hist,
                   arg_N, arg_src, fft, variant, env>>

\* The half-buffer the driver reports ready: the oldest unacknowledged one.
DriverHalf(h) == IF h = 0 THEN ai_buf ELSE ai_buf2

(***************************************************************************)
(* print_error_and_cleanup: clears and releases the card, then exit(1).    *)
(***************************************************************************)
PrintErrorAndCleanup ==
    /\ card' = FALSE
    /\ drv' = IF card THEN IdleDriver ELSE drv
    /\ pc' = "exited"
    /\ exit_code' = 1

(***************************************************************************)
(* main, lines 143-163: card registration and configuration.               *)
(***************************************************************************)
Startup ==
    /\ pc = "startup"
    /\ \E reg_ok \in Outcomes, cfg_ok \in Outcomes :
          IF ~reg_ok
          THEN /\ pc' = "exited"
               /\ exit_code' = 1
               /\ UNCHANGED <<card, drv>>
          ELSE IF ~cfg_ok
          THEN /\ card' = FALSE
               /\ drv' = IdleDriver
               /\ pc' = "exited"
               /\ exit_code' = 1
          ELSE /\ card' = TRUE
               /\ pc' = "config"
               /\ UNCHANGED <<exit_code, drv>>
    /\ UNCHANGED <<event_count, exit_now, g_data_buffer,
                   g_buffered_count, heap, current_acq_buffer, current_acq_size,
                   sel_work, g_fStop, halfReady, current_buffer_idx, f_out_live,
                   fs_tmp, fs_final, log_fs, now, ai_buf, ai_buf2, hist,
                   arg_N, arg_src, fft, variant, env>>

(***************************************************************************)
(* main, lines 168-190: top of the trigger cycle, driver configuration.    *)
(***************************************************************************)
Config ==
    /\ pc = "config"
    /\ exit_now = 0
    /\ event_count < env.cycles
    /\ event_count' = event_count + 1
    /\ \E err \in Errors :
          IF err
          THEN /\ PrintErrorAndCleanup
               /\ UNCHANGED hist
          ELSE /\ drv' = [IdleDriver EXCEPT !.state = "armed", !.signal = event_count]
               /\ pc' = "wait_trigger"
               /\ hist' = [hist EXCEPT !.last_save = "none"]
               /\ UNCHANGED <<exit_code, card>>
    /\ UNCHANGED <<exit_now, g_data_buffer,
                   g_buffered_count, heap, current_acq_buffer, current_acq_size,
                   sel_work, g_fStop, halfReady, current_buffer_idx, f_out_live,
                   fs_tmp, fs_final, log_fs, now, ai_buf, ai_buf2,
                   arg_N, arg_src, fft, variant, env>>

(***************************************************************************)
(* main, lines 192-199: one poll of the trigger status and the keyboard.   *)
(***************************************************************************)
\* The wait loop without the test of exit_now after it (line 199).
WaitTriggerFallsThrough ==
    /\ pc = "wait_trigger"
    /\ \E esc \in BOOLEAN :
          LET trig == drv.state \in {"running", "stopped"} IN
          /\ exit_now' = IF esc THEN 1 ELSE exit_now
          /\ hist' = [hist EXCEPT !.esc_in_wait = @ \/ esc]
          /\ pc' = IF esc \/ trig THEN "open_live" ELSE "wait_trigger"
    /\ UNCHANGED <<exit_code, card, event_count, g_data_buffer,
                   g_buffered_count, heap, current_acq_buffer, current_acq_size,
                   sel_work, g_fStop, halfReady, current_buffer_idx, f_out_live,
                   fs_tmp, fs_final, log_fs, now, ai_buf, ai_buf2, drv,
                   arg_N, arg_src, fft, variant, env>>

WaitTrigger ==
    /\ pc = "wait_trigger"
    /\ \E esc \in BOOLEAN :
          LET trig == drv.state \in {"running", "stopped"} IN
          /\ exit_now' = IF esc THEN 1 ELSE exit_now
          /\ hist' = [hist EXCEPT !.esc_in_wait = @ \/ esc]
          /\ pc' = IF esc THEN "final_flush"
                   ELSE IF trig THEN "open_live" ELSE "wait_trigger"
    /\ UNCHANGED <<exit_code, card, event_count, g_data_buffer,
                   g_buffered_count, heap, current_acq_buffer, current_acq_size,
                   sel_work, g_fStop, halfReady, current_buffer_idx, f_out_live,
                   fs_tmp, fs_final, log_fs, now, ai_buf, ai_buf2, drv,
                   arg_N, arg_src, fft, variant, env>>

\* OpenLive with the temp-file failure handled by `continue`.
OpenLiveSkipsEvent ==
    /\ pc = "open_live"
    /\ \E open_ok \in Outcomes, malloc_ok \in Outcomes :
          /\ f_out_live' = IF open_ok THEN "open" ELSE "null"
          /\ fs_tmp' = IF open_ok THEN EmptyFile ELSE fs_tmp
          /\ IF ~open_ok
             THEN /\ sel_work' = NoWork
                  /\ pc' = "config"
                  /\ UNCHANGED <<exit_code, card, drv>>
             ELSE IF malloc_ok
             THEN /\ sel_work' = [alloc |-> TRUE, data |-> <<>>]
                  /\ pc' = "drain_poll"
                  /\ UNCHANGED <<exit_code, card, drv>>
             ELSE /\ sel_work' = NoWork
                  /\ PrintErrorAndCleanup
    /\ current_acq_buffer' = NULL
    /\ current_acq_size' = 0
    /\ g_fStop' = 0
    /\ current_buffer_idx' = 0
    /\ UNCHANGED <<event_count, exit_now, g_data_buffer, g_buffered_count, heap,
                   halfReady, fs_final, log_fs, now, ai_buf, ai_buf2, hist,
                   arg_N, arg_src, fft, variant, env>>

(***************************************************************************)
(* main, lines 201-227: open the live temp file, reset the event locals,   *)
(* allocate the work buffer.                                               *)
(***************************************************************************)
OpenLive ==
    /\ pc = "open_live"
    /\ \E open_ok \in Outcomes, malloc_ok \in Outcomes :
          /\ f_out_live' = IF open_ok THEN "open" ELSE "null"
          /\ fs_tmp' = IF open_ok THEN EmptyFile ELSE fs_tmp
          /\ IF malloc_ok
             THEN /\ sel_work' = [alloc |-> TRUE, data |-> <<>>]
                  /\ pc' = "drain_poll"
                  /\ UNCHANGED <<exit_code, card, drv>>
             ELSE /\ sel_work' = NoWork
                  /\ PrintErrorAndCleanup
    /\ current_acq_buffer' = NULL
    /\ current_acq_size' = 0
    /\ g_fStop' = 0
    /\ current_buffer_idx' = 0
    /\ UNCHANGED <<event_count, exit_now, g_data_buffer, g_buffered_count, heap,
                   halfReady, fs_final, log_fs, now, ai_buf, ai_buf2, hist,
                   arg_N, arg_src, fft, variant, env>>

(***************************************************************************)
(* Drain loop, line 230: WD_AI_AsyncDblBufferHalfReady.                    *)
(***************************************************************************)
DrainPoll ==
    /\ pc = "drain_poll"
    /\ g_fStop = 0
    /\ halfReady' = drv.full[drv.rd]
    /\ g_fStop' = IF drv.state = "stopped" THEN 1 ELSE 0
    /\ hist' = IF drv.full[drv.rd]
               THEN [hist EXCEPT !.reported = Append(@, DriverHalf(drv.rd))]
               ELSE hist
    /\ pc' = IF drv.full[drv.rd] THEN "extract" ELSE "kbhit"
    /\ UNCHANGED <<exit_code, card, event_count, exit_now, g_data_buffer,
                   g_buffered_count, heap, current_acq_buffer, current_acq_size,
                   sel_work, current_buffer_idx, f_out_live,
                   fs_tmp, fs_final, log_fs, now, ai_buf, ai_buf2, drv,
                   arg_N, arg_src, fft, variant, env>>

\* Line 233: the half the core reads for the current ready report.
SourceBufferStuck == ai_buf

SourceBuffer == IF current_buffer_idx = 0 THEN ai_buf ELSE ai_buf2

(***************************************************************************)
(* Drain loop, lines 233-236: extraction into the work buffer.             *)
(***************************************************************************)
Extract ==
    /\ pc = "extract"
    /\ sel_work' = [sel_work EXCEPT !.data = extract_selected_channels(SourceBuffer)]
    /\ pc' = "append"
    /\ UNCHANGED <<exit_code, card, event_count, exit_now, g_data_buffer,
                   g_buffered_count, heap, current_acq_buffer, current_acq_size,
                   g_fStop, halfReady, current_buffer_idx, f_out_live,
                   fs_tmp, fs_final, log_fs, now, ai_buf, ai_buf2, drv, hist,
                   arg_N, arg_src, fft, variant, env>>

\* malloc/realloc hand out the lowest free block.
FreshPtr == CHOOSE p \in Ptrs : ~heap[p].alloc /\ \A q \in Ptrs : ~heap[q].alloc => p <= q

Free(hp, p) == IF p = NULL THEN hp ELSE [hp EXCEPT ![p] = FreeBlock]

(***************************************************************************)
(* Drain loop, lines 239-255: grow the event buffer, copy the chunk, write *)
(* it to the live temp file.                                               *)
(***************************************************************************)
\* Lines 240-245: realloc returned NULL.
ReallocFailedKeepsEvent ==
    /\ g_fStop' = 1
    /\ hist' = [hist EXCEPT !.alloc_failed = TRUE]
    /\ UNCHANGED <<heap, current_acq_buffer, current_acq_size>>

ReallocFailed ==
    /\ heap' = Free(heap, current_acq_buffer)
    /\ current_acq_buffer' = NULL
    /\ current_acq_size' = 0
    /\ g_fStop' = 1
    /\ hist' = [hist EXCEPT !.alloc_failed = TRUE]

\* Lines 252-254: the chunk goes to the temp file, if that was opened.
LiveWriteVisible(chunk) ==
    /\ fs_final' = IF f_out_live = "open"
                   THEN [exists |-> TRUE, data |-> fs_final.data \o chunk]
                   ELSE fs_final
    /\ fs_tmp' = fs_tmp

\* The write made only when the event buffer already held data.
LiveWriteAfterFirst(chunk) ==
    /\ fs_tmp' = IF f_out_live = "open" /\ current_acq_buffer # NULL
                 THEN [fs_tmp EXCEPT !.data = @ \o chunk]
                 ELSE fs_tmp
    /\ fs_final' = fs_final

LiveWrite(chunk) ==
    /\ fs_tmp' = IF f_out_live = "open"
                 THEN [fs_tmp EXCEPT !.data = @ \o chunk]
                 ELSE fs_tmp
    /\ fs_final' = fs_final

\* Lines 256-259: both branches of the realloc test fall through to the
\* acknowledgement of the half-buffer.
AfterChunkBreaks(failed) == IF failed THEN "close_live" ELSE "ack"

AfterChunk(failed) == "ack"

AppendChunk ==
    /\ pc = "append"
    /\ \E realloc_ok \in Outcomes :
          IF realloc_ok /\ (current_acq_buffer # NULL \/ \E p \in Ptrs : ~heap[p].alloc)
          THEN LET new_buffer == IF current_acq_buffer = NULL THEN FreshPtr
                                 ELSE current_acq_buffer
                   old == IF current_acq_buffer = NULL THEN <<>>
                          ELSE Take(heap[current_acq_buffer].data,
                                    current_acq_size \div SIZEOF_U16)
                   chunk == Take(sel_work.data, sel_chunk_bytes \div SIZEOF_U16)
               IN /\ heap' = [heap EXCEPT ![new_buffer] =
                                 [alloc |-> TRUE, data |-> old \o chunk]]
                  /\ current_acq_buffer' = new_buffer
                  /\ current_acq_size' = current_acq_size + sel_chunk_bytes
                  /\ LiveWrite(chunk)
                  /\ pc' = AfterChunk(FALSE)
                  /\ UNCHANGED <<g_fStop, hist>>
          ELSE /\ ReallocFailed
               /\ pc' = AfterChunk(TRUE)
               /\ UNCHANGED <<fs_tmp, fs_final>>
    /\ UNCHANGED <<exit_code, card, event_count, exit_now, g_data_buffer,
                   g_buffered_count, sel_work, halfReady, current_buffer_idx,
                   f_out_live, log_fs, now, ai_buf, ai_buf2, drv,
                   arg_N, arg_src, fft, variant, env>>

(***************************************************************************)
(* Drain loop, lines 258-259: switch halves, WD_AI_AsyncDblBufferHandled.  *)
(***************************************************************************)
\* The acknowledgement with the clear inside the loop body.
AckClears ==
    /\ pc = "ack"
    /\ current_buffer_idx' = 1 - current_buffer_idx
    /\ drv' = [IdleDriver EXCEPT !.state = "stopped", !.signal = drv.signal,
                                 !.nfilled = drv.nfilled]
    /\ hist' = [hist EXCEPT !.acked = @ + 1, !.cleared = @ + 1]
    /\ pc' = "kbhit"
    /\ UNCHANGED <<exit_code, card, event_count, exit_now, g_data_buffer,
                   g_buffered_count, heap, current_acq_buffer, current_acq_size,
                   sel_work, g_fStop, halfReady, f_out_live,
                   fs_tmp, fs_final, log_fs, now, ai_buf, ai_buf2,
                   arg_N, arg_src, fft, variant, env>>

Ack ==
    /\ pc = "ack"
    /\ current_buffer_idx' = 1 - current_buffer_idx
    /\ drv' = [drv EXCEPT !.full[drv.rd] = FALSE, !.rd = 1 - drv.rd]
    /\ hist' = [hist EXCEPT !.acked = @ + 1]
    /\ pc' = "kbhit"
    /\ UNCHANGED <<exit_code, card, event_count, exit_now, g_data_buffer,
                   g_buffered_count, heap, current_acq_buffer, current_acq_size,
                   sel_work, g_fStop, halfReady, f_out_live,
                   fs_tmp, fs_final, log_fs, now, ai_buf, ai_buf2,
                   arg_N, arg_src, fft, variant, env>>

(***************************************************************************)
(* Drain loop, line 262 and the loop test of line 229.                     *)
(***************************************************************************)
Kbhit ==
    /\ pc = "kbhit"
    /\ \E esc \in BOOLEAN :
          /\ g_fStop' = IF esc THEN 1 ELSE g_fStop
          /\ exit_now' = IF esc THEN 1 ELSE exit_now
          /\ hist' = IF esc
                     THEN [hist EXCEPT !.esc_in_drain = TRUE,
                                       !.esc_data = current_acq_buffer # NULL
                                                    /\ current_acq_size > 0]
                     ELSE hist
          /\ pc' = IF esc \/ g_fStop # 0 THEN "close_live" ELSE "drain_poll"
    /\ UNCHANGED <<exit_code, card, event_count, g_data_buffer,
                   g_buffered_count, heap, current_acq_buffer, current_acq_size,
                   sel_work, halfReady, current_buffer_idx, f_out_live,
                   fs_tmp, fs_final, log_fs, now, ai_buf, ai_buf2, drv,
                   arg_N, arg_src, fft, variant, env>>

(***************************************************************************)
(* main, lines 266-270: close the temp file and rename it over the         *)
(* visible snapshot (MoveFileExA may fail; its result is ignored).         *)
(***************************************************************************)
CloseLive ==
    /\ pc = "close_live"
    /\ IF f_out_live = "open"
       THEN /\ f_out_live' = "closed"
            /\ \E mv_ok \in Outcomes :
                  IF mv_ok
                  THEN /\ fs_final' = fs_tmp
                       /\ fs_tmp' = NoFile
                  ELSE UNCHANGED <<fs_final, fs_tmp>>
       ELSE UNCHANGED <<f_out_live, fs_final, fs_tmp>>
    /\ pc' = "async_clear"
    /\ UNCHANGED <<exit_code, card, event_count, exit_now, g_data_buffer,
                   g_buffered_count, heap, current_acq_buffer, current_acq_size,
                   sel_work, g_fStop, halfReady, current_buffer_idx,
                   log_fs, now, ai_buf, ai_buf2, drv, hist, arg_N, arg_src, fft, variant, env>>

(***************************************************************************)
(* main, lines 273-275: WD_AI_AsyncClear once per event, free(sel_work).   *)
(***************************************************************************)
AsyncClear ==
    /\ pc = "async_clear"
    /\ drv' = IdleDriver
    /\ hist' = [hist EXCEPT !.cleared = @ + 1]
    /\ sel_work' = NoWork
    /\ pc' = "add_batch"
    /\ UNCHANGED <<exit_code, card, event_count, exit_now, g_data_buffer,
                   g_buffered_count, heap, current_acq_buffer, current_acq_size,
                   g_fStop, halfReady, current_buffer_idx, f_out_live,
                   fs_tmp, fs_final, log_fs, now, ai_buf, ai_buf2,
                   arg_N, arg_src, fft, variant, env>>


(***************************************************************************)
(* save_batch_to_file.                                                     *)
(***************************************************************************)
\* What fwrite(slot.data, 1, slot.size, f_log) puts in the file.
SlotPayload(slots, hp, i) ==
    IF slots[i].data = NULL THEN <<>>
    ELSE Take(hp[slots[i].data].data, slots[i].size \div SIZEOF_U16)

\* Lines 83-88: the bytes written by iterations i..n-1 of the loop.
RECURSIVE WrittenBody(_, _, _, _)
WrittenBody(slots, hp, i, n) ==
    IF i >= n THEN <<>>
    ELSE SlotPayload(slots, hp, i) \o WrittenBody(slots, hp, i + 1, n)

\* Lines 85-87: the slots after iterations 0..n-1 freed and cleared them.
ClearedSlots(slots, n) ==
    [i \in DOMAIN slots |-> IF i < n THEN EmptySlot ELSE slots[i]]

FreedHeap(slots, hp, n) ==
    [p \in DOMAIN hp |->
        IF \E i \in DOMAIN slots : i < n /\ slots[i].data = p THEN FreeBlock ELSE hp[p]]

\* Lines 56-59: the log file name (timestamp to the second, event count).
LogName(t, cnt) == <<t, Format04D(cnt)>>

\* Lines 69-79: the header (the fields that vary).
LogHeader(t, cnt) == [TEST_DATE |-> t, BATCH_EVENT_COUNT |-> FormatD(cnt)]

\* fopen(path, "wb") followed by the writes and fclose: the file of that
\* name is replaced.
WriteLog(fs, name, header, body) ==
    {f \in fs : f.name # name} \cup {[name |-> name, header |-> header, body |-> body]}

\* What a call of save_batch_to_file leaves in the history.
NoteSave(h, outcome) ==
    [h EXCEPT !.last_save = outcome, !.esc_flush = @ \/ h.esc_added,
              !.carried = (outcome = "open_failed"),
              !.open_failed = @ \/ (outcome = "open_failed")]

\* Lines 62-65: fopen failed; the function returns.
OpenFailedDropsBatch(slots, cnt, h, next_pc) ==
    /\ g_data_buffer' = ClearedSlots(slots, cnt)
    /\ g_buffered_count' = 0
    /\ pc' = next_pc
    /\ hist' = NoteSave(h, "open_failed")
    /\ UNCHANGED <<heap, log_fs>>

OpenFailed(slots, cnt, h, next_pc) ==
    /\ g_data_buffer' = slots
    /\ g_buffered_count' = cnt
    /\ pc' = next_pc
    /\ hist' = NoteSave(h, "open_failed")
    /\ UNCHANGED <<heap, log_fs>>

\* The call save_batch_to_file() made with the batch (slots, cnt); h is the
\* history to extend and next_pc where the caller continues.  A batch that
\* overran the array makes the loop read slots past its end: either the
\* memory still holds what was stored there, or the process is lost.
SaveBatchToFile(slots, cnt, h, next_pc) ==
    IF cnt = 0
    THEN /\ g_data_buffer' = slots
         /\ g_buffered_count' = cnt
         /\ pc' = next_pc
         /\ hist' = h
         /\ UNCHANGED <<heap, log_fs, now>>
    ELSE \E t \in now..MaxTime, open_ok \in Outcomes, mem_ok \in BOOLEAN :
            LET name == LogName(t, cnt)
                n_done == IF cnt > MAX_EVENT_BATCH /\ ~mem_ok
                          THEN MAX_EVENT_BATCH ELSE cnt
            IN /\ now' = t
               /\ IF ~open_ok
                  THEN OpenFailed(slots, cnt, h, next_pc)
                  ELSE /\ log_fs' = WriteLog(log_fs, name, LogHeader(t, cnt),
                                             WrittenBody(slots, heap, 0, n_done))
                       /\ heap' = FreedHeap(slots, heap, n_done)
                       /\ g_data_buffer' = ClearedSlots(slots, n_done)
                       /\ hist' = [NoteSave(h, "opened") EXCEPT
                                       !.flushed = Append(@, name)]
                       /\ IF n_done = cnt
                          THEN /\ g_buffered_count' = 0
                               /\ pc' = next_pc
                          ELSE /\ g_buffered_count' = cnt
                               /\ pc' = "crashed"

\* The observations of one event end with its trigger cycle.
EndOfCycle(h) == [h EXCEPT !.reported = <<>>, !.acked = 0, !.alloc_failed = FALSE,
                            !.spectral = 0, !.cleared = 0]

\* Lines 284-286: flush only once the batch has reached its capacity.
SaveBatchToFileIfFull(slots, cnt, h, next_pc) ==
    IF cnt >= MAX_EVENT_BATCH
    THEN SaveBatchToFile(slots, cnt, h, next_pc)
    ELSE /\ g_data_buffer' = slots
         /\ g_buffered_count' = cnt
         /\ pc' = next_pc
         /\ hist' = h
         /\ UNCHANGED <<heap, log_fs, now>>

(***************************************************************************)
(* main, lines 277-289: hand the event to the batch; flush at capacity.    *)
(* The store g_data_buffer[g_buffered_count] is not bounds-checked: with   *)
(* g_buffered_count >= MAX_EVENT_BATCH it writes past the array, and       *)
(* either lands in the memory behind it or the process is lost.            *)
(***************************************************************************)
AddBatch ==
    /\ pc = "add_batch"
    /\ LET next_pc == IF exit_now # 0 THEN "final_flush" ELSE "config" IN
       IF current_acq_buffer # NULL /\ current_acq_size > 0
       THEN \E landed \in BOOLEAN :
               IF g_buffered_count >= MAX_EVENT_BATCH /\ ~landed
               THEN /\ pc' = "crashed"
                    /\ UNCHANGED <<g_data_buffer, g_buffered_count, heap,
                                   log_fs, now, hist>>
               ELSE SaveBatchToFileIfFull(
                       [g_data_buffer EXCEPT ![g_buffered_count] =
                           [data |-> current_acq_buffer, size |-> current_acq_size]],
                       g_buffered_count + 1,
                       [EndOfCycle(hist) EXCEPT
                           !.esc_added = hist.esc_in_drain,
                           !.added = Append(@, Take(heap[current_acq_buffer].data,
                                                    current_acq_size \div SIZEOF_U16))],
                       next_pc)
       ELSE /\ pc' = next_pc
            /\ hist' = EndOfCycle(hist)
            /\ UNCHANGED <<g_data_buffer, g_buffered_count, heap, log_fs, now>>
    \* the locals of the loop body go out of scope
    /\ current_acq_buffer' = NULL
    /\ current_acq_size' = 0
    /\ g_fStop' = 0
    /\ halfReady' = FALSE
    /\ current_buffer_idx' = 0
    /\ f_out_live' = "none"
    /\ UNCHANGED <<exit_code, card, event_count, exit_now, sel_work,
                   fs_tmp, fs_final, ai_buf, ai_buf2, drv, arg_N, arg_src, fft, variant, env>>

(***************************************************************************)
(* main, lines 292-295: the flush of the rest of the batch at shutdown.    *)
(***************************************************************************)
FinalFlush ==
    /\ pc = "final_flush"
    /\ IF g_buffered_count > 0
       THEN SaveBatchToFile(g_data_buffer, g_buffered_count,
                            [hist EXCEPT !.final_save = TRUE], "release")
       ELSE /\ pc' = "release"
            /\ UNCHANGED <<g_data_buffer, g_buffered_count, heap, log_fs, now, hist>>
    /\ UNCHANGED <<exit_code, card, event_count, exit_now, current_acq_buffer,
                   current_acq_size, sel_work, g_fStop,
                   halfReady, current_buffer_idx, f_out_live, fs_tmp, fs_final,
                   ai_buf, ai_buf2, drv, arg_N, arg_src, fft, variant, env>>

(***************************************************************************)
(* main, lines 297-306: release the card and return 0.                     *)
(***************************************************************************)
Release ==
    /\ pc = "release"
    /\ card' = FALSE
    /\ drv' = IF card THEN IdleDriver ELSE drv
    /\ pc' = "exited"
    /\ exit_code' = 0
    /\ UNCHANGED <<event_count, exit_now, g_data_buffer,
                   g_buffered_count, heap, current_acq_buffer, current_acq_size,
                   sel_work, g_fStop, halfReady, current_buffer_idx, f_out_live,
                   fs_tmp, fs_final, log_fs, now, ai_buf, ai_buf2, hist,
                   arg_N, arg_src, fft, variant, env>>

Next ==
    \/ Startup
    \/ Config
    \/ WaitTrigger
    \/ OpenLive
    \/ DrainPoll
    \/ Extract
    \/ AppendChunk
    \/ Ack
    \/ Kbhit
    \/ CloseLive
    \/ AsyncClear
    \/ AddBatch
    \/ FinalFlush
    \/ Release
    \/ DriverTrigger
    \/ DriverFill
    \/ DriverStop

Spec == Init /\ [][Next]_vars

(***************************************************************************)
(* The same program followed for twice MAX_EVENT_BATCH trigger cycles in   *)
(* an environment where no call fails: the runs in which the batch fills   *)
(* up more than once.                                                      *)
(***************************************************************************)
LongCycles == 2 * MAX_EVENT_BATCH

InitLong ==
    /\ InitCommon
    /\ pc = "startup"
    /\ ai_buf = ZeroBuf
    /\ ai_buf2 = ZeroBuf
    /\ arg_N = BUFFER_SAMPLES
    /\ arg_src = ZeroBuf
    /\ variant = "cadgetdata"
    /\ env = [faults |-> FALSE, cycles |-> LongCycles]

SpecLong == InitLong /\ [][Next]_vars


(***************************************************************************)
(* The original and the spectral variant (src/CodeTriggerExtBaru/ori.c and *)
(* fft_zero.c).  Both acquire CHANNEL_COUNT channels and store the         *)
(* half-buffers whole; their main differs from the one above in the        *)
(* handling of the live temp file, in the drain-loop body, and (fft_zero.c)*)
(* in the spectral stage run before the event is stored.  Startup, Config, *)
(* WaitTrigger, Kbhit, AddBatch, FinalFlush, Release and save_batch_to_file*)
(* are the same code.                                                      *)
(***************************************************************************)
VHalfSamps == BUFFER_SAMPLES * CHANNEL_COUNT
chunk_size == SIZEOF_U16 * BUFFER_SAMPLES * CHANNEL_COUNT
VZeroBuf == [j \in 0..(VHalfSamps - 1) |-> 0]

\* Samples of the n-th half-buffer of acquisition g, CHANNEL_COUNT channels:
\* a ramp whose slope grows with n, so that the half-buffers of an
\* acquisition differ in shape and not only in level.
VSignal(g, n) ==
    [j \in 0..(VHalfSamps - 1) |->
        (100 * g + 10 * ((j % CHANNEL_COUNT) + 1)
           + n * BUFFER_SAMPLES + (n + 1) * (j \div CHANNEL_COUNT)) % 65536]

\* The bytes of a static buffer as fwrite and memcpy read them.
BufferSeq(buf, n) == [i \in 1..n |-> buf[i - 1]]

InitVariant ==
    /\ InitCommon
    /\ pc = "startup"
    /\ variant \in {"ori", "fft_zero"}
    /\ ai_buf = VZeroBuf
    /\ ai_buf2 = VZeroBuf
    /\ arg_N = BUFFER_SAMPLES
    /\ arg_src = VZeroBuf
    /\ env = FaultyEnv

VDriverFill ==
    /\ drv.state = "running"
    /\ drv.nfilled < MaxChunks
    /\ ~drv.full[drv.fill]
    /\ ai_buf' = IF drv.fill = 0 THEN VSignal(drv.signal, drv.nfilled) ELSE ai_buf
    /\ ai_buf2' = IF drv.fill = 1 THEN VSignal(drv.signal, drv.nfilled) ELSE ai_buf2
    /\ drv' = [drv EXCEPT !.full[drv.fill] = TRUE, !.fill = 1 - drv.fill,
                          !.nfilled = drv.nfilled + 1]
    /\ UNCHANGED <<pc, exit_code, card, event_count, exit_now, g_data_buffer,
                   g_buffered_count, heap, current_acq_buffer, current_acq_size,
                   sel_work, g_fStop, halfReady, current_buffer_idx, f_out_live,
                   fs_tmp, fs_final, log_fs, now, hist, arg_N, arg_src, fft, variant, env>>

\* fft_zero.c line 220, ori.c lines 166-168: `continue`, back to the test of
\* while (!exit_now) and the next trigger cycle.
VOpenFailed == "config"

(***************************************************************************)
(* fft_zero.c lines 215-228 (ori.c 162-176): open the live temp file; on   *)
(* failure the rest of the loop body is skipped.                           *)
(***************************************************************************)
VOpenLive ==
    /\ pc = "open_live"
    /\ \E open_ok \in BOOLEAN :
          /\ f_out_live' = IF open_ok THEN "open" ELSE "null"
          /\ fs_tmp' = IF open_ok THEN EmptyFile ELSE fs_tmp
          /\ pc' = IF open_ok THEN "drain_poll" ELSE VOpenFailed
    /\ current_acq_buffer' = NULL
    /\ current_acq_size' = 0
    /\ g_fStop' = 0
    /\ current_buffer_idx' = 0
    /\ UNCHANGED <<exit_code, card, event_count, exit_now, g_data_buffer,
                   g_buffered_count, heap, sel_work, halfReady, fs_final,
                   log_fs, now, ai_buf, ai_buf2, drv, hist,
                   arg_N, arg_src, fft, variant, env>>

(***************************************************************************)
(* fft_zero.c line 231 (ori.c 179): WD_AI_AsyncDblBufferHalfReady.         *)
(***************************************************************************)
VDrainPoll ==
    /\ pc = "drain_poll"
    /\ g_fStop = 0
    /\ halfReady' = drv.full[drv.rd]
    /\ g_fStop' = IF drv.state = "stopped" THEN 1 ELSE 0
    /\ hist' = IF drv.full[drv.rd]
               THEN [hist EXCEPT !.reported = Append(@, DriverHalf(drv.rd))]
               ELSE hist
    /\ pc' = IF drv.full[drv.rd] THEN "append" ELSE "kbhit"
    /\ UNCHANGED <<exit_code, card, event_count, exit_now, g_data_buffer,
                   g_buffered_count, heap, current_acq_buffer, current_acq_size,
                   sel_work, current_buffer_idx, f_out_live,
                   fs_tmp, fs_final, log_fs, now, ai_buf, ai_buf2, drv,
                   arg_N, arg_src, fft, variant, env>>

(***************************************************************************)
(* fft_zero.c lines 233-245 (ori.c 181-193): grow the event buffer, copy   *)
(* the half-buffer whole, write it to the temp file.  A failed realloc     *)
(* frees the event and leaves the loop by `break`.                         *)
(***************************************************************************)
VAppendChunk ==
    /\ pc = "append"
    /\ \E realloc_ok \in BOOLEAN :
          IF realloc_ok /\ (current_acq_buffer # NULL \/ \E p \in Ptrs : ~heap[p].alloc)
          THEN LET new_buffer == IF current_acq_buffer = NULL THEN FreshPtr
                                 ELSE current_acq_buffer
                   old == IF current_acq_buffer = NULL THEN <<>>
                          ELSE Take(heap[current_acq_buffer].data,
                                    current_acq_size \div SIZEOF_U16)
                   chunk == BufferSeq(SourceBuffer, chunk_size \div SIZEOF_U16)
               IN /\ heap' = [heap EXCEPT ![new_buffer] =
                                 [alloc |-> TRUE, data |-> old \o chunk]]
                  /\ current_acq_buffer' = new_buffer
                  /\ current_acq_size' = current_acq_size + chunk_size
                  /\ fs_tmp' = [fs_tmp EXCEPT !.data = @ \o chunk]
                  /\ pc' = "ack"
                  /\ UNCHANGED <<g_fStop, hist>>
          ELSE /\ g_fStop' = 1
               /\ heap' = Free(heap, current_acq_buffer)
               /\ current_acq_buffer' = NULL
               /\ hist' = [hist EXCEPT !.alloc_failed = TRUE]
               /\ pc' = "close_live"
               /\ UNCHANGED <<current_acq_size, fs_tmp>>
    /\ UNCHANGED <<exit_code, card, event_count, exit_now, g_data_buffer,
                   g_buffered_count, sel_work, halfReady, current_buffer_idx,
                   f_out_live, fs_final, log_fs, now, ai_buf, ai_buf2, drv,
                   arg_N, arg_src, fft, variant, env>>

(***************************************************************************)
(* fft_zero.c lines 247-249 (ori.c 194-196): switch halves,                *)
(* WD_AI_AsyncClear inside the loop, WD_AI_AsyncDblBufferHandled.  The     *)
(* result of the clear is not tested: either the acquisition is stopped    *)
(* and its buffers are given up, or the call fails and the acquisition     *)
(* goes on with the half-buffer acknowledged.                              *)
(***************************************************************************)
VAck ==
    /\ pc = "ack"
    /\ current_buffer_idx' = 1 - current_buffer_idx
    /\ \E stops \in BOOLEAN :
          drv' = IF stops
                 THEN [IdleDriver EXCEPT !.state = "stopped", !.signal = drv.signal,
                                         !.nfilled = drv.nfilled]
                 ELSE [drv EXCEPT !.full[drv.rd] = FALSE, !.rd = 1 - drv.rd]
    /\ hist' = [hist EXCEPT !.acked = @ + 1, !.cleared = @ + 1]
    /\ pc' = "kbhit"
    /\ UNCHANGED <<exit_code, card, event_count, exit_now, g_data_buffer,
                   g_buffered_count, heap, current_acq_buffer, current_acq_size,
                   sel_work, g_fStop, halfReady, f_out_live,
                   fs_tmp, fs_final, log_fs, now, ai_buf, ai_buf2,
                   arg_N, arg_src, fft, variant, env>>

(***************************************************************************)
(* fft_zero.c lines 254-257 (ori.c 201-204): fclose, MoveFileExA (result   *)
(* ignored), and the test that guards the spectral stage and the store.    *)
(***************************************************************************)
VCloseLive ==
    /\ pc = "close_live"
    /\ f_out_live' = IF f_out_live = "open" THEN "closed" ELSE f_out_live
    /\ \E mv_ok \in BOOLEAN :
          IF mv_ok /\ fs_tmp.exists
          THEN /\ fs_final' = fs_tmp
               /\ fs_tmp' = NoFile
          ELSE UNCHANGED <<fs_final, fs_tmp>>
    /\ pc' = IF variant = "fft_zero" /\ current_acq_buffer # NULL /\ current_acq_size > 0
             THEN "spectral" ELSE "add_batch"
    /\ UNCHANGED <<exit_code, card, event_count, exit_now, g_data_buffer,
                   g_buffered_count, heap, current_acq_buffer, current_acq_size,
                   sel_work, g_fStop, halfReady, current_buffer_idx,
                   log_fs, now, ai_buf, ai_buf2, drv, hist,
                   arg_N, arg_src, fft, variant, env>>

\* fft_zero.c lines 258-264: channel c of the first BUFFER_SAMPLES scans of
\* the event buffer, as floats.
\* The copy taken from the chunk collected last.
ChannelCopyOfLastChunk(data, c) ==
    [i \in 1..BUFFER_SAMPLES |->
        ToFloat(data[Len(data) - VHalfSamps + (i - 1) * CHANNEL_COUNT + c + 1])]

ChannelCopy(data, c) ==
    [i \in 1..BUFFER_SAMPLES |-> ToFloat(data[(i - 1) * CHANNEL_COUNT + c + 1])]

\* The stage writing its centred samples back into the event buffer.
SpectralInPlace(hp, p, result) ==
    [hp EXCEPT ![p].data =
        [j \in 1..Len(@) |->
            IF j <= VHalfSamps
            THEN (IF (j - 1) % CHANNEL_COUNT = 0
                  THEN result.ch0[((j - 1) \div CHANNEL_COUNT) + 1]
                  ELSE result.ch1[((j - 1) \div CHANNEL_COUNT) + 1]) % 65536
            ELSE @[j]]]

\* fft_zero.c lines 258-267: the stage works on the copies ch0 and ch1;
\* the event buffer is not written.
SpectralOnCopies(hp, p, result) == hp

(***************************************************************************)
(* fft_zero.c lines 258-267: the spectral stage on the first chunk of the  *)
(* event.  None of its allocations (ch0, ch1, the transform's cfg, in,     *)
(* out) is checked: when one fails a null pointer is written through and   *)
(* the process is lost.                                                    *)
(***************************************************************************)
SpectralStage ==
    /\ pc = "spectral"
    /\ \E malloc_ok \in BOOLEAN, open_ok \in BOOLEAN :
          IF malloc_ok
          THEN LET data == heap[current_acq_buffer].data
                   result == process_fft_and_save_onefile(
                                 ChannelCopy(data, 0), ChannelCopy(data, 1), open_ok)
               IN /\ fft' = [NoSpectrum EXCEPT !.file = result.file]
                  /\ heap' = SpectralOnCopies(heap, current_acq_buffer, result)
                  /\ hist' = [hist EXCEPT !.spectral = @ + 1]
                  /\ pc' = "add_batch"
          ELSE /\ pc' = "crashed"
               /\ UNCHANGED <<fft, heap, hist>>
    /\ UNCHANGED <<exit_code, card, event_count, exit_now, g_data_buffer,
                   g_buffered_count, current_acq_buffer, current_acq_size,
                   sel_work, g_fStop, halfReady, current_buffer_idx, f_out_live,
                   fs_tmp, fs_final, log_fs, now, ai_buf, ai_buf2, drv,
                   arg_N, arg_src, variant, env>>

NextVariant ==
    \/ Startup
    \/ Config
    \/ WaitTrigger
    \/ VOpenLive
    \/ VDrainPoll
    \/ VAppendChunk
    \/ VAck
    \/ Kbhit
    \/ VCloseLive
    \/ SpectralStage
    \/ AddBatch
    \/ FinalFlush
    \/ Release
    \/ DriverTrigger
    \/ VDriverFill
    \/ DriverStop

SpecVariant == InitVariant /\ [][NextVariant]_vars

(***************************************************************************)
(* The extraction checked on its own: every source of arg_N scans over a   *)
(* small sample alphabet, and the source of the documented scenario.       *)
(***************************************************************************)
ScenarioSrc == [j \in 0..7 |-> <<10, 20, 30, 40, 11, 21, 31, 41>>[j + 1]]
ScenarioOut == <<20, 40, 21, 41>>

ExtractSources(n) ==
    [0..(n * TOTAL_HW_CHANNELS - 1) -> {0, 1}]
        \cup (IF n = 2 THEN {ScenarioSrc} ELSE {})

InitExtract ==
    /\ InitCommon
    /\ pc = "extract_call"
    /\ arg_N \in 1..MaxScans
    /\ arg_src \in ExtractSources(arg_N)
    /\ ai_buf = arg_src
    /\ ai_buf2 = ZeroBuf
    /\ variant = "cadgetdata"
    /\ env = FaultyEnv

\* A call extract_selected_channels(ai_buf, sel_work) over arg_N scans.
ExtractCall ==
    /\ pc = "extract_call"
    /\ sel_work' = [alloc |-> TRUE, data |-> ExtractChannels(ai_buf, arg_N)]
    /\ pc' = "extract_done"
    /\ UNCHANGED <<exit_code, card, event_count, exit_now, g_data_buffer,
                   g_buffered_count, heap, current_acq_buffer, current_acq_size,
                   g_fStop, halfReady, current_buffer_idx, f_out_live,
                   fs_tmp, fs_final, log_fs, now, ai_buf, ai_buf2, drv, hist,
                   arg_N, arg_src, fft, variant, env>>

NextExtract == ExtractCall

SpecExtract == InitExtract /\ [][NextExtract]_vars

(***************************************************************************)
(* The spectral stage checked on its own: every pair of channels of        *)
(* FFT_SIZE samples over 0..MaxSample, converted to float as main does.    *)
(***************************************************************************)
SpectralInputs == [1..FFT_SIZE -> 0..MaxSample]

AsFloats(samples) == [i \in 1..FFT_SIZE |-> ToFloat(samples[i])]

InitSpectral ==
    /\ InitCommon
    /\ pc = "fft_call"
    /\ variant = "fft_zero"
    /\ ai_buf = ZeroBuf
    /\ ai_buf2 = ZeroBuf
    /\ arg_N = FFT_SIZE
    /\ arg_src \in SpectralInputs \X SpectralInputs
    /\ env = FaultyEnv

\* A call process_fft_and_save_onefile(ch0, ch1, FFT_SIZE, LIVE_FOLDER).
ProcessFftCall ==
    /\ pc = "fft_call"
    /\ \E open_ok \in BOOLEAN :
          fft' = process_fft_and_save_onefile(AsFloats(arg_src[1]),
                                              AsFloats(arg_src[2]), open_ok)
    /\ pc' = "fft_done"
    /\ UNCHANGED <<exit_code, card, event_count, exit_now, g_data_buffer,
                   g_buffered_count, heap, current_acq_buffer, current_acq_size,
                   sel_work, g_fStop, halfReady, current_buffer_idx, f_out_live,
                   fs_tmp, fs_final, log_fs, now, ai_buf, ai_buf2, drv, hist,
                   arg_N, arg_src, variant, env>>

NextSpectral == ProcessFftCall

SpecSpectral == InitSpectral /\ [][NextSpectral]_vars

(***************************************************************************)
(* Derived notions used by the properties.                                 *)
(***************************************************************************)
\* The payload accumulated so far for the event in progress.
EventData ==
    IF current_acq_buffer = NULL THEN <<>>
    ELSE Take(heap[current_acq_buffer].data, current_acq_size \div SIZEOF_U16)

\* extract(B_from) ++ ... ++ extract(B_n) for the half-buffers of a sequence.
RECURSIVE ConcatExtract(_, _)
ConcatExtract(halves, from) ==
    IF from > Len(halves) THEN <<>>
    ELSE extract_selected_channels(halves[from]) \o ConcatExtract(halves, from + 1)

IsPrefix(a, b) == Len(a) <= Len(b) /\ a = SubSeq(b, 1, Len(a))

(***************************************************************************)
(* C1.  The number of events held in the batch never exceeds               *)
(* MAX_EVENT_BATCH, so every store g_data_buffer[g_buffered_count] uses an *)
(* index below MAX_EVENT_BATCH.  Refuted: after a capacity flush whose     *)
(* fopen failed the count stays at MAX_EVENT_BATCH and the next event is   *)
(* stored past the end of the array.                                       *)
(***************************************************************************)
C1_BatchWithinCapacity == g_buffered_count <= MAX_EVENT_BATCH

(***************************************************************************)
(* C2.  For a trigger cycle without allocation failure, when the drain     *)
(* loop has exited the event buffer is extract(B0) ++ ... ++ extract(Bn-1) *)
(* for the half-buffers reported ready, in that order; the j-th report     *)
(* (from 0) is read from ai_buf for even j and from ai_buf2 for odd j.     *)
(***************************************************************************)
C2_EventIsOrderedConcat ==
    /\ pc = "extract" =>
          /\ current_buffer_idx = (Len(hist.reported) - 1) % 2
          /\ (IF Len(hist.reported) % 2 = 1 THEN ai_buf ELSE ai_buf2)
                = hist.reported[Len(hist.reported)]
    /\ (pc = "close_live" /\ ~hist.alloc_failed) =>
          /\ EventData = ConcatExtract(hist.reported, 1)
          /\ current_acq_size = Len(hist.reported) * sel_chunk_bytes

\* Two half-buffers were drained, the second one reported ready by the same
\* poll that reported the stop.
C2_Witness ==
    /\ pc = "close_live"
    /\ ~hist.alloc_failed
    /\ Len(hist.reported) = 2
    /\ halfReady
    /\ exit_now = 0

(***************************************************************************)
(* C6.  extract_selected_channels writes scans * |selection| samples with  *)
(* output[i*|selection| + k] = src[i*hardware_channel_count + selection[k]]*)
(* for every scan i and selection position k, maps the documented          *)
(* scenario source to [20,40,21,41], and leaves the source unchanged.      *)
(***************************************************************************)
C6_ExtractCorrect ==
    pc = "extract_done" =>
        /\ Len(sel_work.data) = arg_N * SELECTED_COUNT
        /\ \A i \in 0..(arg_N - 1) : \A k \in 0..(SELECTED_COUNT - 1) :
              sel_work.data[i * SELECTED_COUNT + k + 1]
                 = arg_src[i * TOTAL_HW_CHANNELS + SELECTED_IDX[k + 1]]
        /\ (arg_src = ScenarioSrc => sel_work.data = ScenarioOut)
        /\ ai_buf = arg_src

C6_Witness == pc = "extract_done" /\ arg_src = ScenarioSrc /\ sel_work.data = ScenarioOut


(***************************************************************************)
(* C3.  If realloc fails on any chunk of an event, everything accumulated  *)
(* for the event is freed, the trigger cycle leaves g_buffered_count and   *)
(* every batch slot unchanged, and the process does not terminate: main    *)
(* proceeds to the next trigger cycle.                                     *)
(***************************************************************************)
\* Every allocated event buffer is held by a batch slot.
NoStrayBuffer(hp, slots, cnt) ==
    \A p \in Ptrs : hp[p].alloc => \E i \in 0..(cnt - 1) : slots[i].data = p

\* The claim as stated: the cycle of a failed realloc always ends at the top
\* of the next trigger cycle.
C3_AbortedEventAlwaysContinues ==
    [][ (pc = "add_batch" /\ hist.alloc_failed) => pc' = "config" ]_vars

\* As amended: the same, unless the ESC key was seen at the poll point of the
\* failing iteration, in which case main leaves the loop for the final flush.
C3_AbortedEventDiscarded ==
    [][ /\ (pc \notin {"add_batch", "final_flush"})
            => UNCHANGED <<g_data_buffer, g_buffered_count>>
        /\ hist.alloc_failed
            => /\ UNCHANGED <<g_data_buffer, g_buffered_count>>
               /\ pc' \notin {"exited", "crashed"}
        /\ hist'.alloc_failed
            => /\ current_acq_buffer' = NULL
               /\ current_acq_size' = 0
               /\ NoStrayBuffer(heap', g_data_buffer', g_buffered_count')
        /\ (pc = "add_batch" /\ hist.alloc_failed)
            => pc' = IF exit_now = 0 THEN "config" ELSE "final_flush"
      ]_vars

\* realloc failed on the second chunk and the cycle is about to end with no
\* cancellation pending.
C3_Witness ==
    /\ pc = "add_batch"
    /\ hist.alloc_failed
    /\ Len(hist.reported) = 2
    /\ exit_now = 0
    /\ g_buffered_count = 1


(***************************************************************************)
(* C4.  A reader sampling the visible live snapshot at any point finds no  *)
(* file or the whole chunk stream of exactly one event as it stood when    *)
(* that event's temp file was closed: chunks are written to the temp path  *)
(* only, and the visible path changes only by the rename after fclose.     *)
(***************************************************************************)
\* The first k extracted chunks of acquisition e.
RECURSIVE EventStream(_, _)
EventStream(e, k) ==
    IF k = 0 THEN <<>>
    ELSE EventStream(e, k - 1) \o extract_selected_channels(Signal(e, k - 1))

C4_AtomicPublish ==
    /\ [](fs_final.exists =>
            \E e \in 0..(MaxCycles - 1), k \in 0..MaxChunks :
                fs_final.data = EventStream(e, k))
    /\ [](f_out_live = "open" =>
            /\ fs_tmp.exists
            /\ IsPrefix(fs_tmp.data, ConcatExtract(hist.reported, 1)))
    /\ [][ fs_final' # fs_final =>
            /\ pc = "close_live"
            /\ f_out_live = "open"
            /\ f_out_live' = "closed"
            /\ fs_tmp.exists
            /\ fs_final' = fs_tmp ]_vars
    /\ [][ fs_tmp' # fs_tmp =>
            \/ pc = "open_live" /\ f_out_live' = "open" /\ fs_tmp' = EmptyFile
            \/ /\ pc = "append"
               /\ f_out_live = "open"
               /\ fs_tmp'.data = fs_tmp.data
                     \o extract_selected_channels(hist.reported[Len(hist.reported)])
            \/ pc = "close_live" /\ fs_final' = fs_tmp /\ fs_tmp' = NoFile ]_vars

\* The reader samples while the next event is being written to the temp
\* file: the visible file still is the previous event's two-chunk stream.
C4_Witness ==
    /\ fs_final.exists
    /\ fs_final.data = EventStream(0, 2)
    /\ f_out_live = "open"
    /\ fs_tmp.data = EventStream(1, 1)


(***************************************************************************)
(* C5.  When save_batch_to_file opens the log file with N >= 1 events in   *)
(* the batch, the file written is the header with BATCH_EVENT_COUNT = N    *)
(* followed by the N payloads in insertion order with no separator, so     *)
(* that splitting the bytes after the header by the events' sizes gives    *)
(* back the payloads.  Refuted for N > MAX_EVENT_BATCH (reachable through  *)
(* the overrun of C1): the write loop then reads slots past the array.     *)
(***************************************************************************)
\* The reader's side: the decimal number of a digit sequence.
RECURSIVE ParseD(_)
ParseD(d) == IF Len(d) = 0 THEN 0 ELSE 10 * ParseD(SubSeq(d, 1, Len(d) - 1)) + d[Len(d)]

\* The reader's side: cut a byte stream into pieces of the given sizes.
RECURSIVE SplitBySizes(_, _)
SplitBySizes(bytes, sizes) ==
    IF Len(sizes) = 0 THEN <<>>
    ELSE <<SubSeq(bytes, 1, sizes[1])>>
            \o SplitBySizes(SubSeq(bytes, sizes[1] + 1, Len(bytes)), Tail(sizes))

RECURSIVE Flatten(_)
Flatten(ss) == IF Len(ss) = 0 THEN <<>> ELSE ss[1] \o Flatten(Tail(ss))

\* The batch a save_batch_to_file call of the current step is made with.
CallSlots ==
    IF pc = "add_batch"
    THEN [g_data_buffer EXCEPT ![g_buffered_count] =
             [data |-> current_acq_buffer, size |-> current_acq_size]]
    ELSE g_data_buffer
CallCount == IF pc = "add_batch" THEN g_buffered_count + 1 ELSE g_buffered_count
CallPayloads == [i \in 1..CallCount |-> heap[CallSlots[i - 1].data].data]
CallSizes == [i \in 1..CallCount |-> CallSlots[i - 1].size \div SIZEOF_U16]

\* The current step is a save_batch_to_file call whose fopen succeeds.
SaveOpens ==
    /\ hist'.last_save = "opened"
    /\ \/ pc = "add_batch" /\ pc' # "add_batch"
       \/ pc = "final_flush" /\ g_buffered_count > 0

LogRoundTrips ==
    \E f \in log_fs' :
        /\ f.name = LogName(now', CallCount)
        /\ ParseD(f.header.BATCH_EVENT_COUNT) = CallCount
        /\ f.body = Flatten(CallPayloads)
        /\ SplitBySizes(f.body, CallSizes) = CallPayloads

C5_LogRoundTrip == [][ SaveOpens => LogRoundTrips ]_vars

\* The same for batches within the array, which is what the code achieves.
C5_InBoundsRoundTrip ==
    [][ (SaveOpens /\ CallCount <= MAX_EVENT_BATCH) => LogRoundTrips ]_vars


(***************************************************************************)
(* C7.  When the ESC key is seen at a drain-loop poll point, the chunk of  *)
(* that iteration has been handled and acknowledged, the data collected    *)
(* for the event in flight (if any) is added to the batch, no further      *)
(* trigger cycle is armed, and a flush of the batch holding that event is  *)
(* attempted before the card is released and the process ends.  Refuted    *)
(* when the batch is already full after a failed flush (C1): the add then  *)
(* stores past the array.                                                  *)
(***************************************************************************)
C7_CancelHandled ==
    /\ (hist.esc_in_drain /\ pc = "close_live") => hist.acked = Len(hist.reported)
    /\ hist.esc_in_drain => pc \notin {"config", "wait_trigger", "open_live"}

C7_CancelOutcome ==
    /\ hist.esc_in_drain => exit_code # 1
    /\ (hist.esc_in_drain /\ hist.esc_data /\ exit_code = 0)
          => hist.esc_added /\ hist.esc_flush

C7_CancellationFlushes ==
    /\ C7_CancelHandled
    /\ C7_CancelOutcome
    /\ hist.esc_in_drain => pc # "crashed"

\* What the code achieves: the same, except where the store or the flush
\* runs past the end of g_data_buffer.
C7_CancellationFlushesInBounds ==
    /\ C7_CancelHandled
    /\ C7_CancelOutcome
    /\ (hist.esc_in_drain /\ pc = "crashed") => g_buffered_count >= MAX_EVENT_BATCH

(***************************************************************************)
(* C8.  When save_batch_to_file cannot open the log file, the batch is     *)
(* left as it was at the call: g_buffered_count and every slot's pointer   *)
(* and size are unchanged, no buffer is freed, nothing is written, and the *)
(* process continues.                                                      *)
(***************************************************************************)
\* The current step is a save_batch_to_file call whose fopen fails.
SaveOpenFails ==
    /\ hist'.last_save = "open_failed"
    /\ \/ pc = "add_batch" /\ pc' # "add_batch"
       \/ pc = "final_flush"

C8_FailedOpenKeepsBatch ==
    [][ SaveOpenFails =>
          /\ g_buffered_count' = CallCount
          /\ g_data_buffer' = CallSlots
          /\ \A i \in 0..(CallCount - 1) :
                /\ g_data_buffer'[i].data # NULL
                /\ heap'[g_data_buffer'[i].data] = heap[CallSlots[i].data]
                /\ heap'[g_data_buffer'[i].data].alloc
          /\ heap' = heap
          /\ log_fs' = log_fs
          /\ pc' \in {"config", "final_flush", "release"}
      ]_vars

\* The capacity flush failed to open its file and main is at the top of the
\* next trigger cycle with the full batch still in memory.
C8_Witness ==
    /\ pc = "config"
    /\ hist.last_save = "open_failed"
    /\ g_buffered_count = MAX_EVENT_BATCH
    /\ \A i \in 0..(MAX_EVENT_BATCH - 1) :
          g_data_buffer[i].data # NULL /\ heap[g_data_buffer[i].data].alloc

(***************************************************************************)
(* C9.  If the live temp file cannot be opened for an event, nothing is    *)
(* written or renamed for that event (the temp and the visible file keep   *)
(* their content), while the drain loop is entered, the event buffer is    *)
(* accumulated, every ready half-buffer is acknowledged and the event is   *)
(* handed to the batch exactly as for an event whose temp file opened.     *)
(***************************************************************************)
C9_LiveOpenFailureIsLocal ==
    /\ [][ (f_out_live = "null" \/ f_out_live' = "null")
              => UNCHANGED <<fs_tmp, fs_final>> ]_vars
    /\ [][ (pc = "open_live" /\ f_out_live' = "null" /\ pc' # "exited")
              => pc' = "drain_poll" ]_vars
    /\ []((f_out_live = "null" /\ pc = "close_live") =>
              /\ hist.acked = Len(hist.reported)
              /\ ~hist.alloc_failed =>
                    /\ EventData = ConcatExtract(hist.reported, 1)
                    /\ current_acq_size = Len(hist.reported) * sel_chunk_bytes)
    /\ [][ (/\ pc = "add_batch"
            /\ f_out_live = "null"
            /\ current_acq_buffer # NULL
            /\ current_acq_size > 0
            /\ pc' # "crashed")
              => \/ /\ g_buffered_count' = g_buffered_count + 1
                    /\ g_data_buffer'[g_buffered_count]
                          = [data |-> current_acq_buffer, size |-> current_acq_size]
                    /\ heap' = heap
                 \/ /\ hist'.last_save = "opened"
                    /\ g_buffered_count' = 0
                    /\ \E f \in log_fs' : f.body = Flatten(CallPayloads) ]_vars

\* The second event was acquired with the temp file unopened: its two chunks
\* are about to be handed to the batch and the visible file still shows the
\* first event.
C9_Witness ==
    /\ pc = "add_batch"
    /\ f_out_live = "null"
    /\ EventData = EventStream(1, 2)
    /\ fs_final = [exists |-> TRUE, data |-> EventStream(0, 1)]

(***************************************************************************)
(* C10.  On every path by which the process terminates with a non-empty    *)
(* batch, save_batch_to_file is called before the exit.  Refuted:          *)
(* print_error_and_cleanup exits without calling it.                       *)
(***************************************************************************)
C10_ExitFlushesBatch ==
    (pc = "exited" /\ g_buffered_count > 0) => hist.final_save

(***************************************************************************)
(* C11.  With the driver filling the two halves alternately from ai_buf    *)
(* and refilling a half only once it was acknowledged, the core reads a    *)
(* half-buffer only between the ready report for it and its               *)
(* acknowledgement: every ready report is followed by exactly one          *)
(* WD_AI_AsyncDblBufferHandled, after the extraction copy and before the   *)
(* next poll, whether or not realloc failed, and from the report to the    *)
(* acknowledgement the half is not the driver's to write.                  *)
(***************************************************************************)
C11_ReadOnlyWhileOwned ==
    /\ pc \in {"extract", "append", "ack"} =>
          /\ Len(hist.reported) >= 1
          /\ hist.acked = Len(hist.reported) - 1
          /\ drv.rd = current_buffer_idx
          /\ drv.full[current_buffer_idx]
          /\ drv.fill # current_buffer_idx \/ drv.full[drv.fill]
          /\ DriverHalf(current_buffer_idx) = hist.reported[Len(hist.reported)]
    /\ pc \in {"append", "ack"} =>
          sel_work.data = extract_selected_channels(hist.reported[Len(hist.reported)])
    /\ pc \in {"drain_poll", "kbhit", "close_live", "async_clear"} =>
          hist.acked = Len(hist.reported)

\* realloc failed on the second half-buffer and that half was acknowledged
\* all the same, while the driver has the first half back.
C11_Witness ==
    /\ pc = "kbhit"
    /\ hist.alloc_failed
    /\ Len(hist.reported) = 2
    /\ hist.acked = 2
    /\ ~drv.full[0]
    /\ ~drv.full[1]

(***************************************************************************)
(* C12.  When the FFT_SIZE input samples of each channel are all the same  *)
(* value, process_fft_and_save_onefile computes that value as the mean,    *)
(* leaves every sample 0 after zero-centering, and every one of the        *)
(* FFT_SIZE magnitude bins of both channels is 0.                          *)
(***************************************************************************)
IsConstant(samples) == \A i \in 1..FFT_SIZE : samples[i] = samples[1]

AllZero(a) == Len(a) = FFT_SIZE /\ \A i \in 1..FFT_SIZE : a[i] = 0

C12_ConstantInputHasZeroSpectrum ==
    (pc = "fft_done" /\ IsConstant(arg_src[1]) /\ IsConstant(arg_src[2])) =>
        /\ Mean(AsFloats(arg_src[1])) = ToFloat(arg_src[1][1])
        /\ Mean(AsFloats(arg_src[2])) = ToFloat(arg_src[2][1])
        /\ AllZero(fft.ch0)
        /\ AllZero(fft.ch1)
        /\ AllZero(fft.mag0)
        /\ AllZero(fft.mag1)
        /\ fft.file.exists => fft.file.data = [j \in 1..(2 * FFT_SIZE) |-> 0]

\* Two constant channels with different non-zero levels were processed and
\* the spectrum file was written.
C12_Witness ==
    /\ pc = "fft_done"
    /\ arg_src[1] = [i \in 1..FFT_SIZE |-> MaxSample]
    /\ arg_src[2] = [i \in 1..FFT_SIZE |-> 1]
    /\ fft.file.exists
    /\ AllZero(fft.mag0)
    /\ AllZero(fft.mag1)

(***************************************************************************)
(* C13.  In ori.c and fft_zero.c, when the live temp file cannot be        *)
(* created for a triggered event only the publication is skipped: the      *)
(* drain loop is still entered, so that the event's half-buffers are       *)
(* drained and acknowledged and the event reaches the batch.  Refuted:     *)
(* both programs `continue` to the next trigger cycle, and the event is    *)
(* neither drained nor stored.                                             *)
(***************************************************************************)
C13_TempFailureSkipsOnlyPublication ==
    [][ (pc = "open_live" /\ f_out_live' = "null") =>
            /\ pc' = "drain_poll"
            /\ UNCHANGED <<fs_tmp, fs_final>> ]_vars

(***************************************************************************)
(* C14.  Whenever the visible live snapshot exists it is a complete event: *)
(* every rename publishes the full payload of an event whose drain loop    *)
(* ended normally, and an event aborted by a failed realloc is never       *)
(* published.  Refuted: the close-and-rename of lines 266-270 does not     *)
(* look at the outcome of the event, so the chunks written to the temp     *)
(* file before the failure become the visible snapshot.                    *)
(***************************************************************************)
C14_PublishedIsCompleteEvent ==
    [][ fs_final' # fs_final =>
            /\ ~hist.alloc_failed
            /\ fs_final'.data = EventData ]_vars

(***************************************************************************)
(* C15.  After a flush attempt that could not open its log file, the next  *)
(* flush whose open succeeds writes the carried-over events followed by    *)
(* every event completed since, in insertion order, under a header count   *)
(* equal to their total, and the batch holds at most MAX_EVENT_BATCH       *)
(* events at that flush.  Refuted: a flush is only attempted at capacity,  *)
(* so every event completed after a failed one is stored past the array    *)
(* (C1) and the next flush runs on MAX_EVENT_BATCH + 1 events or more.     *)
(***************************************************************************)
C15_NextFlushCarriesOver ==
    [][ (SaveOpens /\ hist.carried) =>
            /\ CallCount <= MAX_EVENT_BATCH
            /\ LogRoundTrips ]_vars

\* What the code achieves: a carried-over batch that was not added to is
\* written whole by the next flush that opens its file.
C15_CarriedOverWithinArray ==
    [][ (SaveOpens /\ hist.carried /\ CallCount <= MAX_EVENT_BATCH) =>
            LogRoundTrips ]_vars

(***************************************************************************)
(* C16.  In every trigger cycle that enters the drain loop,                *)
(* WD_AI_AsyncClear is called exactly once by the loop body, after the     *)
(* drain loop has exited and before the next cycle's trigger               *)
(* configuration, whether the event completed, was aborted by a failed     *)
(* realloc or was cancelled; it is never called while the drain loop runs. *)
(***************************************************************************)
C16_ClearedOncePerCycle ==
    /\ pc \in {"drain_poll", "extract", "append", "ack", "kbhit",
                "close_live", "async_clear"} =>
          /\ hist.cleared = 0
          /\ drv.state \in {"running", "stopped"}
    /\ pc = "add_batch" =>
          /\ hist.cleared = 1
          /\ drv = IdleDriver
    /\ pc = "config" =>
          /\ hist.cleared = 0
          /\ drv = IdleDriver

\* The cycle of an event that was aborted by a failed realloc and cancelled
\* at the same poll point has made its one call.
C16_Witness ==
    /\ pc = "add_batch"
    /\ hist.cleared = 1
    /\ hist.alloc_failed
    /\ hist.esc_in_drain
    /\ Len(hist.reported) = 2

(***************************************************************************)
(* C17.  A live temp file handle opened for an event is closed on every    *)
(* path by which the event's processing ends (completion, cancellation,    *)
(* failed realloc, failed malloc of sel_work): wherever main has left the  *)
(* trigger cycle, or the process has ended, the handle is not open.        *)
(* Refuted: when malloc of sel_work fails, print_error_and_cleanup ends    *)
(* the process and nothing has closed the handle.                          *)
(***************************************************************************)
C17_LiveHandleClosed ==
    pc \in {"config", "wait_trigger", "final_flush", "release", "exited"} =>
        f_out_live # "open"

\* What the code achieves: every path through the drain loop closes the
\* handle before the event is handed on.
C17_ClosedAfterDrainLoop ==
    pc \in {"async_clear", "add_batch", "config", "wait_trigger",
            "final_flush", "release"} => f_out_live # "open"

(***************************************************************************)
(* C18.  After a flush whose open succeeds g_buffered_count is 0 and every *)
(* flushed slot has data NULL and size 0, its buffer freed exactly once;   *)
(* in every reachable state every slot at index >= g_buffered_count is     *)
(* empty, the slots below hold distinct live buffers, and so no event      *)
(* survives its flush and no buffer is written or freed twice.  Refuted    *)
(* for a batch that overran the array (C1): the loop of lines 83-88 then   *)
(* reads slots past its end and the flush need not complete.               *)
(***************************************************************************)
\* The batch as an array: empty above the count, distinct live buffers below.
BatchWellFormed ==
    /\ \A i \in DOMAIN g_data_buffer :
          i >= g_buffered_count => g_data_buffer[i] = EmptySlot
    /\ \A i \in 0..(g_buffered_count - 1) :
          /\ g_data_buffer[i].data # NULL
          /\ heap[g_data_buffer[i].data].alloc
          /\ \A j \in 0..(g_buffered_count - 1) :
                i # j => g_data_buffer[i].data # g_data_buffer[j].data

\* The step frees every buffer of the batch it was called with, each of
\* them allocated until then, and leaves the batch empty.
FlushEmptiesBatch ==
    /\ g_buffered_count' = 0
    /\ \A i \in 0..(CallCount - 1) :
          /\ g_data_buffer'[i] = EmptySlot
          /\ heap[CallSlots[i].data].alloc
          /\ heap'[CallSlots[i].data] = FreeBlock
    /\ \A p \in Ptrs :
          (\A i \in 0..(CallCount - 1) : CallSlots[i].data # p) => heap'[p] = heap[p]

C18_FlushedSlotsAreEmpty ==
    /\ [][ SaveOpens => FlushEmptiesBatch ]_vars
    /\ [](pc # "crashed" => BatchWellFormed)

\* What the code achieves: the same for every batch within the array.
C18_FlushedSlotsAreEmptyInBounds ==
    /\ [][ (SaveOpens /\ CallCount <= MAX_EVENT_BATCH) => FlushEmptiesBatch ]_vars
    /\ [](pc # "crashed" => BatchWellFormed)

(***************************************************************************)
(* C19.  Every event held in the batch has a non-null buffer and a size    *)
(* that is a positive whole multiple of the extracted chunk size           *)
(* (BUFFER_SAMPLES * SELECTED_COUNT * 2 bytes), namely that size times the *)
(* number of half-buffers drained for the event; a trigger cycle in which  *)
(* the driver reports stop before any half-buffer is ready adds nothing to *)
(* the batch.                                                              *)
(***************************************************************************)
ExtractedChunkBytes == BUFFER_SAMPLES * SELECTED_COUNT * SIZEOF_U16

HeldEventsAreWholeChunks ==
    \A i \in 0..(g_buffered_count - 1) :
        /\ g_data_buffer[i].data # NULL
        /\ g_data_buffer[i].size > 0
        /\ g_data_buffer[i].size % ExtractedChunkBytes = 0
        /\ heap[g_data_buffer[i].data].alloc
        /\ Len(heap[g_data_buffer[i].data].data) * SIZEOF_U16 = g_data_buffer[i].size

C19_BatchedEventsAreWholeChunks ==
    /\ [](pc # "crashed" => HeldEventsAreWholeChunks)
    /\ [][ (pc = "add_batch" /\ g_buffered_count' = g_buffered_count + 1) =>
              /\ Len(hist.reported) >= 1
              /\ g_data_buffer'[g_buffered_count].size
                    = Len(hist.reported) * ExtractedChunkBytes ]_vars
    /\ [][ (pc = "add_batch" /\ Len(hist.reported) = 0) =>
              UNCHANGED <<g_data_buffer, g_buffered_count, heap, log_fs>> ]_vars

\* A two-chunk event is held in the batch and the cycle after it ends
\* without a single half-buffer reported ready.
C19_Witness ==
    /\ pc = "add_batch"
    /\ Len(hist.reported) = 0
    /\ g_fStop = 1
    /\ exit_now = 0
    /\ g_buffered_count = 1
    /\ g_data_buffer[0].size = 2 * ExtractedChunkBytes

(***************************************************************************)
(* C20.  In fft_zero.c the spectral stage runs exactly once per event that *)
(* is added to the batch, after the event's drain loop has exited and      *)
(* before the event is written into its batch slot; it works on copies, so *)
(* the payload stored is what the drain loop accumulated; and a failure to *)
(* open the spectral output file leaves the add and the capacity flush as  *)
(* they are.                                                               *)
(***************************************************************************)
\* The half-buffers of a sequence, whole, one after the other.
RECURSIVE ConcatHalves(_, _)
ConcatHalves(halves, from) ==
    IF from > Len(halves) THEN <<>>
    ELSE BufferSeq(halves[from], VHalfSamps) \o ConcatHalves(halves, from + 1)

EventToStore == current_acq_buffer # NULL /\ current_acq_size > 0

C20_SpectralStageIsSideEffectFree ==
    /\ []((variant = "fft_zero" /\ pc \in {"drain_poll", "append", "ack", "kbhit",
                                             "close_live", "spectral"})
            => hist.spectral = 0)
    /\ []((variant = "fft_zero" /\ pc = "add_batch") =>
            /\ hist.spectral = (IF EventToStore THEN 1 ELSE 0)
            /\ EventToStore => EventData = ConcatHalves(hist.reported, 1))
    /\ [][ (variant = "fft_zero" /\ pc = "add_batch"
              /\ g_buffered_count' = g_buffered_count + 1) =>
                /\ hist.spectral = 1
                /\ g_data_buffer'[g_buffered_count]
                      = [data |-> current_acq_buffer, size |-> current_acq_size]
                /\ heap'[current_acq_buffer].data = ConcatHalves(hist.reported, 1) ]_vars
    /\ [][ (pc = "spectral" /\ pc' # "crashed") =>
                /\ pc' # pc => /\ pc' = "add_batch"
                               /\ hist'.spectral = hist.spectral + 1
                /\ UNCHANGED <<heap, current_acq_buffer, current_acq_size,
                               g_data_buffer, g_buffered_count, log_fs, now,
                               exit_now, fs_tmp, fs_final>> ]_vars

\* The stage ran for an event whose add fills the batch, and it could not
\* open its output file.
C20_Witness ==
    /\ variant = "fft_zero"
    /\ pc = "add_batch"
    /\ hist.spectral = 1
    /\ ~fft.file.exists
    /\ EventToStore
    /\ g_buffered_count = MAX_EVENT_BATCH - 1


(***************************************************************************)
(* C21.  Any two flushes of one run whose log file opens succeed write to  *)
(* distinct file paths: a flush that opens its log file never opens a path *)
(* that an earlier flush of the run has written, so no log file is         *)
(* truncated or overwritten.  (log_fs is empty when the run starts, so     *)
(* every file in it was written by an earlier flush.)                      *)
(***************************************************************************)
C21_FlushesWriteDistinctPaths ==
    [][ SaveOpens => \A f \in log_fs : f.name # LogName(now', CallCount) ]_vars

(***************************************************************************)
(* C22.  In a run in which every log-file open succeeds and which ends by  *)
(* cancellation, no stored event is lost or duplicated: the bodies of the  *)
(* log files, taken in flush order, concatenate to the payloads of the     *)
(* events in the order they were added to the batch, and the event counts  *)
(* of those files add up to the number of events added.                    *)
(***************************************************************************)
LogFile(name) == CHOOSE f \in log_fs : f.name = name

RECURSIVE FlushedBodies(_)
FlushedBodies(names) ==
    IF Len(names) = 0 THEN <<>>
    ELSE LogFile(Head(names)).body \o FlushedBodies(Tail(names))

RECURSIVE FlushedCounts(_)
FlushedCounts(names) ==
    IF Len(names) = 0 THEN 0
    ELSE ParseD(LogFile(Head(names)).header.BATCH_EVENT_COUNT)
            + FlushedCounts(Tail(names))

EndedByCancellation == pc = "exited" /\ exit_now # 0

LogsHoldAddedEvents ==
    /\ FlushedBodies(hist.flushed) = Flatten(hist.added)
    /\ FlushedCounts(hist.flushed) = Len(hist.added)

C22_NoEventLostOrDuplicated ==
    [](EndedByCancellation /\ ~hist.open_failed => LogsHoldAddedEvents)

\* The same for the runs whose flushes built pairwise different paths, which
\* is what the code achieves.
DistinctPaths(names) ==
    \A i, j \in 1..Len(names) : names[i] = names[j] => i = j

C22_NoEventLostWhenPathsDiffer ==
    [](EndedByCancellation /\ ~hist.open_failed /\ DistinctPaths(hist.flushed)
          => LogsHoldAddedEvents)

(***************************************************************************)
(* C23.  For an event whose temp file was opened and whose drain loop had  *)
(* no allocation failure, the temp file holds exactly the event payload:   *)
(* while the file is open a step writes to it if and only if it appends to *)
(* the event buffer, and it writes the chunk it appends; the snapshot the  *)
(* rename publishes is the event payload; and the payload stored in the    *)
(* batch is the content of the file that was closed (the snapshot if the   *)
(* rename succeeded, the temp file if it did not).                         *)
(***************************************************************************)
Suffix(s, from) == SubSeq(s, from + 1, Len(s))

ChunkWrittenIffAppended ==
    (f_out_live = "open" /\ f_out_live' = "open") =>
        /\ (fs_tmp' # fs_tmp) <=> (current_acq_size' > current_acq_size)
        /\ (current_acq_size' > current_acq_size) =>
              /\ IsPrefix(fs_tmp.data, fs_tmp'.data)
              /\ IsPrefix(EventData, EventData')
              /\ Suffix(fs_tmp'.data, Len(fs_tmp.data))
                    = Suffix(EventData', Len(EventData))
              /\ Len(EventData') = Len(EventData) + sel_chunk_samps

EventAddedFromClosedFile ==
    (pc = "add_batch" /\ g_buffered_count' = g_buffered_count + 1
        /\ f_out_live = "closed") =>
        /\ heap[g_data_buffer'[g_buffered_count].data].data
              = (IF fs_tmp.exists THEN fs_tmp.data ELSE fs_final.data)
        /\ g_data_buffer'[g_buffered_count].size
              = SIZEOF_U16 * Len(IF fs_tmp.exists THEN fs_tmp.data ELSE fs_final.data)

C23_LiveStreamIsEventPayload ==
    /\ []((f_out_live = "open" /\ ~hist.alloc_failed) => fs_tmp.data = EventData)
    /\ [][ ChunkWrittenIffAppended ]_vars
    /\ [][ (fs_final' # fs_final /\ ~hist.alloc_failed) =>
              fs_final'.data = EventData ]_vars
    /\ [][ EventAddedFromClosedFile ]_vars

\* An event of two chunks was published and is about to be added to the
\* batch.
C23_Witness ==
    /\ pc = "add_batch"
    /\ f_out_live = "closed"
    /\ ~hist.alloc_failed
    /\ ~fs_tmp.exists
    /\ Len(EventData) = 2 * sel_chunk_samps
    /\ fs_final.data = EventData

(***************************************************************************)
(* C24.  Every allocated event buffer has exactly one owner at any time,   *)
(* the event in progress or exactly one slot of the batch array; no slot   *)
(* and no event in progress refers to a freed buffer; and a buffer is      *)
(* freed only by the allocation failure of its own event or by the flush   *)
(* that writes it.  Refuted through the overrun of C1: the event stored    *)
(* after a failed capacity flush is owned by the memory behind the array,  *)
(* not by a slot of it.                                                    *)
(***************************************************************************)
\* The owners of buffer p among the event in progress and the slots `among`.
Owners(p, among) ==
    Cardinality({i \in among : g_data_buffer[i].data = p})
        + (IF current_acq_buffer = p THEN 1 ELSE 0)

ArraySlots == 0..(MAX_EVENT_BATCH - 1)

NoDanglingOwner ==
    /\ current_acq_buffer # NULL => heap[current_acq_buffer].alloc
    /\ \A i \in DOMAIN g_data_buffer :
          g_data_buffer[i].data # NULL => heap[g_data_buffer[i].data].alloc

FreedByOwnFailureOrFlush ==
    \A p \in Ptrs :
        (heap[p].alloc /\ ~heap'[p].alloc) =>
            \/ pc = "append" /\ current_acq_buffer = p /\ hist'.alloc_failed
            \/ /\ SaveOpens
               /\ \E i \in 0..(CallCount - 1) : CallSlots[i].data = p
               /\ \E f \in log_fs' : f.name = LogName(now', CallCount)

C24_ExclusiveOwner ==
    /\ [](pc # "crashed" =>
            \A p \in Ptrs : heap[p].alloc => Owners(p, ArraySlots) = 1)
    /\ []NoDanglingOwner
    /\ [][ FreedByOwnFailureOrFlush ]_vars

\* The same with the memory behind the array counted as slots, while the
\* process runs, which is what the code achieves.
C24_ExclusiveOwnerCountingOverrun ==
    /\ [](pc # "crashed" =>
            \A p \in Ptrs : heap[p].alloc => Owners(p, DOMAIN g_data_buffer) = 1)
    /\ []NoDanglingOwner
    /\ [][ FreedByOwnFailureOrFlush ]_vars

(***************************************************************************)
(* C25.  When ESC is seen in the trigger wait loop, the cycle is left with *)
(* no live temp file opened, no event created and nothing added to the     *)
(* batch: that step changes neither the files nor the batch, and from then *)
(* on main is at the final flush, the card release or its end; the live    *)
(* files and the event locals never change again, and the batch changes    *)
(* only by the final flush of a non-empty batch.                           *)
(***************************************************************************)
EscSeenInWait == pc = "wait_trigger" /\ exit_now' # 0

AfterEscInWait ==
    hist.esc_in_wait =>
        /\ UNCHANGED <<f_out_live, fs_tmp, fs_final, current_acq_buffer,
                       current_acq_size, event_count, exit_now>>
        /\ hist'.added = hist.added
        /\ (<<g_data_buffer, g_buffered_count, heap, log_fs>>' #
               <<g_data_buffer, g_buffered_count, heap, log_fs>>)
              => /\ pc = "final_flush"
                 /\ g_buffered_count > 0
                 /\ hist'.final_save
                 /\ hist'.last_save = "opened"
        /\ pc = "final_flush" => pc' \in {"final_flush", "release", "crashed"}
        /\ pc = "release" => pc' \in {"release", "exited"}

C25_CancelWhileArmed ==
    /\ [][ EscSeenInWait =>
              /\ pc' = "final_flush"
              /\ hist'.esc_in_wait
              /\ f_out_live' = "none"
              /\ current_acq_buffer' = NULL
              /\ UNCHANGED <<f_out_live, fs_tmp, fs_final, log_fs, g_data_buffer,
                             g_buffered_count, heap, current_acq_buffer,
                             current_acq_size, event_count>> ]_vars
    /\ [](hist.esc_in_wait =>
            /\ pc \in {"final_flush", "release", "exited", "crashed"}
            /\ f_out_live = "none"
            /\ current_acq_buffer = NULL)
    /\ [][ AfterEscInWait ]_vars

\* ESC was seen while armed with one event in the batch, and the final flush
\* has written that event.
C25_Witness ==
    /\ hist.esc_in_wait
    /\ pc = "release"
    /\ hist.final_save
    /\ hist.last_save = "opened"
    /\ Len(hist.added) = 1
    /\ g_buffered_count = 0
    /\ fs_final.exists

(***************************************************************************)
(* C26.  Whenever the spectral stage of fft_zero.c is invoked, the event   *)
(* buffer holds a positive whole number of chunks, so every read           *)
(* src[i*CHANNEL_COUNT + c] with i < BUFFER_SAMPLES is inside the buffer;  *)
(* and the spectrum written is that of the first half-buffer collected,    *)
(* however many chunks the event has.                                      *)
(***************************************************************************)
EventSamples == Len(heap[current_acq_buffer].data)

SpectralReadsInBounds ==
    /\ current_acq_buffer # NULL
    /\ heap[current_acq_buffer].alloc
    /\ current_acq_size > 0
    /\ current_acq_size % chunk_size = 0
    /\ SIZEOF_U16 * EventSamples = current_acq_size
    /\ EventSamples >= BUFFER_SAMPLES * CHANNEL_COUNT
    /\ \A i \in 0..(BUFFER_SAMPLES - 1), c \in 0..(CHANNEL_COUNT - 1) :
          i * CHANNEL_COUNT + c < EventSamples

\* Channel c of the first half-buffer the drain loop was given.
FirstChunkChannel(c) ==
    [i \in 1..BUFFER_SAMPLES |->
        ToFloat(hist.reported[1][(i - 1) * CHANNEL_COUNT + c])]

SpectrumOfFirstChunk ==
    Interleave(MagnitudeSpectrum(ZeroCentre(FirstChunkChannel(0))),
               MagnitudeSpectrum(ZeroCentre(FirstChunkChannel(1))), FFT_SIZE)

C26_SpectralStageReadsFirstChunk ==
    /\ [](pc = "spectral" => variant = "fft_zero" /\ SpectralReadsInBounds)
    /\ [][ (pc = "spectral" /\ pc' = "add_batch" /\ fft'.file.exists) =>
              fft'.file.data = SpectrumOfFirstChunk ]_vars

\* The stage has run on an event of two chunks and written its spectrum.
C26_Witness ==
    /\ variant = "fft_zero"
    /\ pc = "add_batch"
    /\ hist.spectral = 1
    /\ fft.file.exists
    /\ Len(hist.reported) = 2
    /\ current_acq_size = 2 * chunk_size

====
